---- MODULE Spec2Model ----
(***************************************************************************)
(* Model of data/ptb_reader.py: the PTB vocabulary builder / encoder       *)
(* (ptb_raw_data and its helpers) and the batch producer (ptb_producer).   *)
(*                                                                         *)
(* Text is a sequence of code points (10 = "\n", 32 = " ", 43 = "+",       *)
(* 60 = "<", 62 = ">", 97.. = "a"..).  A token is such a sequence; a       *)
(* character token is a sequence of length one.                            *)
(***************************************************************************)
EXTENDS Integers, Sequences, FiniteSets, TLC

(* ---- bounds of the model ---- *)
MaxTrainLen == 3     \* characters in the training file
MaxOtherLen == 2     \* characters in the validation / test file
MaxLen == 10         \* length of the sequence handed to ptb_producer
MaxOffset == 1       \* first id of that sequence
MaxBatch == 3        \* largest batch_size
MaxSteps == 3        \* largest num_steps
MaxPulls == 5        \* pulls observed from the producer
QueueCap == 2        \* capacity of the index queue

Alphabet == {10, 32, 97, 98}
Levels == {"word", "char", "sentence"}

VARIABLES
  \* ptb_raw_data (lines 76-117)
  level,        \* the level argument
  train_file,   \* contents of ptb.train.txt
  pc,           \* position in ptb_raw_data
  build,        \* the vocabulary builder chosen (102, 105)
  encode,       \* the encoder chosen (101, 104)
  data,         \* the tokens read last (38, 49, 67, 72)
  dictionary,   \* token -> id (112)
  train_data, valid_data, test_data,   \* (113-115)
  vocabulary,   \* len(dictionary), -1 until set (116)
  err,          \* the exception raised, if any
  \* ptb_producer (lines 120-160)
  raw_data, batch_size, num_steps,     \* the arguments
  ppc,          \* "init": not called, "ready": graph built, "crashed": evaluation failed
  batch_len,    \* (146)
  grid,         \* data, the reshaped tensor (148)
  epoch_size,   \* (150)
  queue,        \* the FIFO queue of range_input_producer (157)
  enq,          \* element of the range its queue runner enqueues next
  i,            \* the index dequeued last, -1 before the first pull (157)
  x, y,         \* the windows evaluated last (158, 159)
  pulls,        \* number of evaluations of (x, y)
  perr          \* error of the last evaluation

rvars == <<level, train_file, pc, build, encode, data, dictionary,
           train_data, valid_data, test_data, vocabulary, err>>
pvars == <<raw_data, batch_size, num_steps, ppc, batch_len, grid, epoch_size,
           queue, enq, i, x, y, pulls, perr>>
vars == <<rvars, pvars>>

(* ---- text helpers ---- *)
RECURSIVE SeqsUpTo(_, _)
SeqsUpTo(S, n) ==
  IF n = 0 THEN {<<>>}
  ELSE LET shorter == SeqsUpTo(S, n - 1)
       IN shorter \cup {Append(s, c) : s \in shorter, c \in S}

NEWLINE == <<10>>
EOS == <<60, 101, 111, 115, 62>>
PLUS == <<43>>
Whitespace == {9, 10, 11, 12, 13, 32}

IsPrefix(p, s) == Len(p) <= Len(s) /\ SubSeq(s, 1, Len(p)) = p

\* str.replace(old, new): leftmost, non-overlapping occurrences
RECURSIVE Replace(_, _, _)
Replace(s, old, new) ==
  IF s = <<>> THEN <<>>
  ELSE IF IsPrefix(old, s)
       THEN new \o Replace(SubSeq(s, Len(old) + 1, Len(s)), old, new)
       ELSE <<Head(s)>> \o Replace(Tail(s), old, new)

\* str.split(): maximal runs of non-whitespace characters
RECURSIVE SplitFrom(_, _, _)
SplitFrom(s, cur, acc) ==
  IF s = <<>> THEN (IF cur = <<>> THEN acc ELSE Append(acc, cur))
  ELSE IF Head(s) \in Whitespace
       THEN SplitFrom(Tail(s), <<>>, IF cur = <<>> THEN acc ELSE Append(acc, cur))
       ELSE SplitFrom(Tail(s), Append(cur, Head(s)), acc)

Split(s) == SplitFrom(s, <<>>, <<>>)

_read_words(file) == Split(Replace(file, NEWLINE, EOS))

_read_chars(file) ==
  LET text == Replace(Replace(file, NEWLINE, EOS), EOS, PLUS)
  IN [k \in 1..Len(text) |-> <<text[k]>>]

\* unicode string comparison a < b (code point order)
RECURSIVE StrLess(_, _)
StrLess(a, b) ==
  IF b = <<>> THEN FALSE
  ELSE IF a = <<>> THEN TRUE
  ELSE IF Head(a) # Head(b) THEN Head(a) < Head(b)
  ELSE StrLess(Tail(a), Tail(b))

(* ---- vocabulary ---- *)
\* collections.Counter(data): a tally, one increment per element
RECURSIVE Counter(_)
Counter(d) ==
  IF d = <<>> THEN <<>>
  ELSE LET rest == Counter(SubSeq(d, 1, Len(d) - 1))
           t == d[Len(d)]
       IN IF t \in DOMAIN rest
          THEN [rest EXCEPT ![t] = @ + 1]
          ELSE [u \in DOMAIN rest \cup {t} |-> IF u = t THEN 1 ELSE rest[u]]

Items(counter) == {<<t, counter[t]>> : t \in DOMAIN counter}

\* variant: the count not negated (ascending frequency)
KeyLessAscending(p, q) ==
  \/ p[2] < q[2]
  \/ p[2] = q[2] /\ StrLess(p[1], q[1])

\* key=lambda x: (-x[1], x[0]); p sorts before q
KeyLess(p, q) ==
  \/ -p[2] < -q[2]
  \/ -p[2] = -q[2] /\ StrLess(p[1], q[1])

RECURSIVE Sorted(_)
Sorted(items) ==
  IF items = {} THEN <<>>
  ELSE LET m == CHOOSE p \in items : \A q \in items \ {p} : KeyLess(p, q)
       IN <<m>> \o Sorted(items \ {m})

\* variant: ids from 1
PyRangeFromOne(n) == [k \in 1..n |-> k]

\* range(n)
PyRange(n) == [k \in 1..n |-> k - 1]

\* dict(zip(keys, values)): a later pair overrides an earlier one
DictZip(keys, values) ==
  LET n == IF Len(keys) < Len(values) THEN Len(keys) ELSE Len(values)
  IN [t \in {keys[k] : k \in 1..n} |->
        values[CHOOSE k \in 1..n : keys[k] = t /\ \A m \in (k + 1)..n : keys[m] # t]]

\* lines 40-45 and 50-55 (the same code for words and for characters)
VocabOf(d) ==
  LET counter == Counter(d)
      count_pairs == Sorted(Items(counter))
      words == [k \in 1..Len(count_pairs) |-> count_pairs[k][1]]
  IN DictZip(words, PyRange(Len(words)))

\* variant: an absent token encoded as id 0 instead of dropped
RECURSIVE FileToIdsPlaceholder(_, _)
FileToIdsPlaceholder(d, word_to_id) ==
  IF d = <<>> THEN <<>>
  ELSE (IF Head(d) \in DOMAIN word_to_id THEN <<word_to_id[Head(d)]>> ELSE <<0>>)
       \o FileToIdsPlaceholder(Tail(d), word_to_id)

\* [word_to_id[word] for word in data if word in word_to_id]
RECURSIVE FileToIds(_, _)
FileToIds(d, word_to_id) ==
  IF d = <<>> THEN <<>>
  ELSE (IF Head(d) \in DOMAIN word_to_id THEN <<word_to_id[Head(d)]>> ELSE <<>>)
       \o FileToIds(Tail(d), word_to_id)

_build_vocab(file) == VocabOf(_read_words(file))

_build_char(file) == VocabOf(_read_chars(file))

_file_to_word_ids(file, word_to_id) == FileToIds(_read_words(file), word_to_id)

_file_to_char_ids(file, char_to_id) == FileToIds(_read_chars(file), char_to_id)

Building(b, file) == IF b = "_build_vocab" THEN _build_vocab(file) ELSE _build_char(file)

Reading(e, file) == IF e = "_file_to_word_ids" THEN _read_words(file) ELSE _read_chars(file)

Encoding(e, file, d) ==
  IF e = "_file_to_word_ids" THEN _file_to_word_ids(file, d) ELSE _file_to_char_ids(file, d)

(* ---- ptb_raw_data ---- *)
\* variant: no test of the level
LevelUnchecked(l) == TRUE

\* the negation of the test of line 97
LevelOk(l) == ~(l # "word" /\ l # "char")

TrainFiles == SeqsUpTo(Alphabet, MaxTrainLen)
OtherFiles == SeqsUpTo(Alphabet, MaxOtherLen)

ProducerIdle ==
  /\ raw_data = <<>> /\ batch_size = 1 /\ num_steps = 1 /\ ppc = "idle"
  /\ batch_len = 0 /\ grid = <<>> /\ epoch_size = 0
  /\ queue = <<>> /\ enq = 0 /\ i = -1 /\ x = <<>> /\ y = <<>> /\ pulls = 0
  /\ perr = "none"

InitReader ==
  /\ level \in Levels
  /\ train_file \in TrainFiles
  /\ pc = "start"
  /\ build = "none" /\ encode = "none"
  /\ data = <<>> /\ dictionary = <<>>
  /\ train_data = <<>> /\ valid_data = <<>> /\ test_data = <<>>
  /\ vocabulary = -1 /\ err = "none"
  /\ ProducerIdle

\* lines 97-105
CheckLevel ==
  /\ pc = "start"
  /\ IF ~LevelOk(level)
     THEN /\ pc' = "failed" /\ err' = "Unknown level"
          /\ UNCHANGED <<build, encode>>
     ELSE /\ pc' = "build" /\ err' = err
          /\ IF level = "word"
             THEN encode' = "_file_to_word_ids" /\ build' = "_build_vocab"
             ELSE encode' = "_file_to_char_ids" /\ build' = "_build_char"
  /\ UNCHANGED <<level, train_file, data, dictionary, train_data, valid_data,
                 test_data, vocabulary, pvars>>

\* line 112; unpacking zip(*count_pairs) of an empty tally raises ValueError (43, 53)
Build ==
  /\ pc = "build"
  /\ data' = (IF build = "_build_vocab" THEN _read_words(train_file)
                                         ELSE _read_chars(train_file))
  /\ IF data' = <<>>
     THEN /\ pc' = "failed" /\ err' = "ValueError" /\ dictionary' = dictionary
     ELSE /\ pc' = "encode_train" /\ err' = err
          /\ dictionary' = Building(build, train_file)
  /\ UNCHANGED <<level, train_file, build, encode, train_data, valid_data,
                 test_data, vocabulary, pvars>>

\* line 113
EncodeTrain ==
  /\ pc = "encode_train"
  /\ data' = Reading(encode, train_file)
  /\ train_data' = Encoding(encode, train_file, dictionary)
  /\ pc' = "encode_valid"
  /\ UNCHANGED <<level, train_file, build, encode, dictionary, valid_data,
                 test_data, vocabulary, err, pvars>>

\* line 114
EncodeValid ==
  /\ pc = "encode_valid"
  /\ \E valid_file \in OtherFiles :
       /\ data' = Reading(encode, valid_file)
       /\ valid_data' = Encoding(encode, valid_file, dictionary)
  /\ pc' = "encode_test"
  /\ UNCHANGED <<level, train_file, build, encode, dictionary, train_data,
                 test_data, vocabulary, err, pvars>>

\* line 115
EncodeTest ==
  /\ pc = "encode_test"
  /\ \E test_file \in OtherFiles :
       /\ data' = Reading(encode, test_file)
       /\ test_data' = Encoding(encode, test_file, dictionary)
  /\ pc' = "return"
  /\ UNCHANGED <<level, train_file, build, encode, dictionary, train_data,
                 valid_data, vocabulary, err, pvars>>

\* lines 116-117
Return ==
  /\ pc = "return"
  /\ vocabulary' = Cardinality(DOMAIN dictionary)
  /\ pc' = "done"
  /\ UNCHANGED <<level, train_file, build, encode, data, dictionary, train_data,
                 valid_data, test_data, err, pvars>>

NextReader ==
  \/ CheckLevel
  \/ Build
  \/ EncodeTrain
  \/ EncodeValid
  \/ EncodeTest
  \/ Return

SpecReader == InitReader /\ [][NextReader]_vars

(* ---- ptb_producer ---- *)
\* variant: column-major fill
ReshapeColumnMajor(rd, rows, cols) ==
  [r \in 1..rows |-> [c \in 1..cols |-> rd[(c - 1) * rows + r]]]

\* tf.reshape(rd, [rows, cols]): row-major
Reshape(rd, rows, cols) ==
  [r \in 1..rows |-> [c \in 1..cols |-> rd[(r - 1) * cols + c]]]

\* tf.slice(data, [0, begin], [rows, size]); begin is 0-based.  The slice must lie
\* within the tensor, or evaluating it raises InvalidArgumentError
InRange(begin, cols, size) == begin >= 0 /\ begin + size <= cols

Slice(d, begin, rows, size) ==
  [r \in 1..rows |-> [j \in 1..size |-> d[r][begin + j]]]

BatchLen(n, bs) == n \div bs

\* variant: no column kept for the shifted target
EpochSizeNoTarget(bl, ns) == bl \div ns

EpochSize(bl, ns) == (bl - 1) \div ns

InputBegin(idx, ns) == idx * ns

\* variant: target not shifted
TargetBeginUnshifted(idx, ns) == idx * ns

TargetBegin(idx, ns) == idx * ns + 1

\* variant: the range is not restarted
NextIndexNoWrap(p, n) == p + 1

\* range_input_producer without an epoch limit: the range, over and over
NextIndex(p, n) == (p + 1) % n

RawDatas ==
  {[k \in 1..len |-> off + k - 1] : len \in 0..MaxLen, off \in 0..MaxOffset}

ReaderIdle ==
  /\ level = "word" /\ train_file = <<>> /\ pc = "idle"
  /\ build = "none" /\ encode = "none"
  /\ data = <<>> /\ dictionary = <<>>
  /\ train_data = <<>> /\ valid_data = <<>> /\ test_data = <<>>
  /\ vocabulary = -1 /\ err = "none"

InitProducer ==
  /\ raw_data \in RawDatas
  /\ batch_size \in 1..MaxBatch
  /\ num_steps \in 1..MaxSteps
  /\ ppc = "init"
  /\ batch_len = 0 /\ grid = <<>> /\ epoch_size = 0
  /\ queue = <<>> /\ enq = 0 /\ i = -1 /\ x = <<>> /\ y = <<>> /\ pulls = 0
  /\ perr = "none"
  /\ ReaderIdle

\* lines 141-159: the graph is built and returned; nothing asserts epoch_size > 0
PtbProducer ==
  /\ ppc = "init"
  /\ LET data_len == Len(raw_data)
         bl == BatchLen(data_len, batch_size)
         rd == SubSeq(raw_data, 1, batch_size * bl)
     IN /\ batch_len' = bl
        /\ grid' = Reshape(rd, batch_size, bl)
        /\ epoch_size' = EpochSize(bl, num_steps)
  /\ ppc' = "ready"
  /\ UNCHANGED <<raw_data, batch_size, num_steps, queue, enq, i, x, y, pulls, perr,
                 rvars>>

\* line 157: the queue runner of range_input_producer(epoch_size, shuffle=False)
QueueRunner ==
  /\ ppc = "ready"
  /\ epoch_size >= 1
  /\ Len(queue) < QueueCap
  /\ queue' = Append(queue, enq)
  /\ enq' = NextIndex(enq, epoch_size)
  /\ UNCHANGED <<raw_data, batch_size, num_steps, ppc, batch_len, grid, epoch_size,
                 i, x, y, pulls, perr, rvars>>

\* lines 157-159 evaluated: dequeue an index, slice the two windows
Pull ==
  /\ ppc = "ready"
  /\ queue # <<>>
  /\ pulls < MaxPulls
  /\ i' = Head(queue)
  /\ queue' = Tail(queue)
  /\ pulls' = pulls + 1
  /\ IF /\ InRange(InputBegin(i', num_steps), batch_len, num_steps)
        /\ InRange(TargetBegin(i', num_steps), batch_len, num_steps)
     THEN /\ x' = Slice(grid, InputBegin(i', num_steps), batch_size, num_steps)
          /\ y' = Slice(grid, TargetBegin(i', num_steps), batch_size, num_steps)
          /\ UNCHANGED <<ppc, perr>>
     ELSE /\ ppc' = "crashed" /\ perr' = "InvalidArgumentError"
          /\ UNCHANGED <<x, y>>
  /\ UNCHANGED <<raw_data, batch_size, num_steps, batch_len, grid, epoch_size,
                 enq, rvars>>

NextProducer ==
  \/ PtbProducer
  \/ QueueRunner
  \/ Pull

SpecProducer == InitProducer /\ [][NextProducer]_vars

(* ======================= properties: ptb_producer ======================= *)

\* floor(a / b) for b >= 1, stated without \div
IsFloorDiv(q, a, b) == q * b <= a /\ a < (q + 1) * b

\* C1: with epoch_size >= 1, the window pulled at index i has shape
\* [batch_size, num_steps] with x[r][j] = seq[r*batch_len + i*num_steps + j] and
\* y[r][j] = seq[r*batch_len + i*num_steps + j + 1] (rows and columns from 0), so
\* y is x shifted left by one column with grid[:, i*num_steps+num_steps] appended;
\* seq 0..9, batch_size 2, num_steps 3 gives x=[[0,1,2],[5,6,7]], y=[[1,2,3],[6,7,8]].
C1_WindowContents ==
  (pulls >= 1 /\ perr = "none") =>
    \E bl \in 0..Len(raw_data) :
      /\ IsFloorDiv(bl, Len(raw_data), batch_size)
      /\ i \in 0..(epoch_size - 1)
      /\ Len(x) = batch_size /\ Len(y) = batch_size
      /\ \A r \in 1..batch_size :
           /\ Len(x[r]) = num_steps /\ Len(y[r]) = num_steps
           /\ \A j \in 1..num_steps :
                /\ x[r][j] = raw_data[(r - 1) * bl + i * num_steps + (j - 1) + 1]
                /\ y[r][j] = raw_data[(r - 1) * bl + i * num_steps + (j - 1) + 2]
           /\ \A j \in 1..(num_steps - 1) : y[r][j] = x[r][j + 1]
           /\ y[r][num_steps] = grid[r][i * num_steps + num_steps + 1]
      /\ (raw_data = <<0, 1, 2, 3, 4, 5, 6, 7, 8, 9>> /\ batch_size = 2 /\ num_steps = 3)
           => /\ x = << <<0, 1, 2>>, <<5, 6, 7>> >>
              /\ y = << <<1, 2, 3>>, <<6, 7, 8>> >>

C1_Witness ==
  /\ pulls >= 1 /\ perr = "none"
  /\ raw_data = <<0, 1, 2, 3, 4, 5, 6, 7, 8, 9>> /\ batch_size = 2 /\ num_steps = 3
  /\ x = << <<0, 1, 2>>, <<5, 6, 7>> >>
  /\ y = << <<1, 2, 3>>, <<6, 7, 8>> >>

\* C2: when epoch_size = floor((floor(len/batch_size)-1)/num_steps) is zero or
\* negative, the call to ptb_producer ends in a fatal failure and never stands
\* ready with nothing to produce.
C2_FailsWhenNoWindow ==
  \A bl \in 0..Len(raw_data) : \A e \in -1..Len(raw_data) :
    (/\ IsFloorDiv(bl, Len(raw_data), batch_size)
     /\ IsFloorDiv(e, bl - 1, num_steps)
     /\ e <= 0
     /\ ppc \notin {"idle", "init"})
      => ppc = "failed"

\* C3: with epoch_size >= 1 the k-th pull (k from 0) uses index k mod epoch_size:
\* 0, 1, ..., epoch_size-1, 0, 1, ... with nothing skipped, repeated or reordered,
\* and the producer never runs out (a further pull, or the enqueue it waits for,
\* is always possible).
C3_IndexSequence ==
  (ppc # "idle" /\ ppc # "init" /\ epoch_size >= 1) =>
    /\ perr = "none"
    /\ pulls >= 1 => i = (pulls - 1) % epoch_size
    /\ \A k \in 1..Len(queue) : queue[k] = (pulls + k - 1) % epoch_size
    /\ pulls < MaxPulls => (ENABLED Pull \/ ENABLED QueueRunner)

\* an index has been used a second time, after all the others
C3_Witness ==
  /\ epoch_size >= 2
  /\ pulls = epoch_size + 1
  /\ i = 0
  /\ perr = "none"

\* C4: the grid has batch_size rows of batch_len = floor(L/batch_size) columns,
\* grid[r][c] = seq[r*batch_len + c]; the trailing L - batch_size*batch_len
\* elements are in no row; epoch_size = floor((floor(L/batch_size)-1)/num_steps).
C4_GridShape ==
  (ppc = "ready") =>
    \E bl \in 0..Len(raw_data) :
      /\ IsFloorDiv(bl, Len(raw_data), batch_size)
      /\ batch_len = bl
      /\ Len(grid) = batch_size
      /\ \A r \in 1..batch_size :
           /\ Len(grid[r]) = bl
           /\ \A c \in 1..bl : grid[r][c] = raw_data[(r - 1) * bl + c]
      /\ \A k \in (batch_size * bl + 1)..Len(raw_data) :
           \A r \in 1..batch_size : \A c \in 1..bl : grid[r][c] # raw_data[k]
      /\ IsFloorDiv(epoch_size, bl - 1, num_steps)

\* a remainder is discarded and the grid has several rows and columns
C4_Witness ==
  /\ ppc = "ready"
  /\ batch_size >= 2
  /\ Len(grid) = batch_size
  /\ Len(grid[1]) >= 2
  /\ Len(raw_data) > batch_size * Len(grid[1])

\* C10: every window index i the producer can consume (0 <= i < epoch_size) has
\* i*num_steps + num_steps + 1 <= batch_len, so the input slice and the shifted
\* target slice lie within columns 0..batch_len-1, and batch_len >= num_steps + 1.
C10_WindowsInGrid ==
  (ppc # "idle" /\ ppc # "init") =>
    LET cols == Len(grid[1])
        InGrid(idx) == idx >= 0 /\ idx * num_steps + num_steps + 1 <= cols
    IN /\ \A idx \in 0..(epoch_size - 1) : InGrid(idx)
       /\ \A k \in 1..Len(queue) : InGrid(queue[k])
       /\ pulls >= 1 => InGrid(i) /\ cols >= num_steps + 1
       /\ perr = "none"

\* the last window of an epoch ends exactly at the last column
C10_Witness ==
  /\ pulls >= 1 /\ perr = "none"
  /\ epoch_size >= 2
  /\ i = epoch_size - 1
  /\ i * num_steps + num_steps + 1 = Len(grid[1])

(* ======================= properties: ptb_raw_data ======================= *)

\* number of occurrences of token t in the sequence d
Occurrences(t, d) == Cardinality({k \in DOMAIN d : d[k] = t})

\* s sorts before t lexicographically: they agree up to some position where s
\* ends or holds the smaller character
LexBefore(s, t) ==
  \E k \in 1..Len(t) :
    /\ \A m \in 1..(k - 1) : m <= Len(s) /\ s[m] = t[m]
    /\ (k > Len(s) \/ s[k] < t[k])

AfterBuild == pc = "encode_train"

\* C5: for a non-empty training token sequence the vocabulary maps the distinct
\* tokens one-to-one onto 0..N-1, N the number of distinct tokens: every token
\* has one id, no two share an id, no id of 0..N-1 is unused.
C5_ContiguousIds ==
  /\ (pc = "failed" /\ err = "ValueError") => data = <<>>
  /\ AfterBuild =>
       LET tokens == {data[k] : k \in DOMAIN data}
           N == Cardinality(tokens)
       IN /\ data # <<>>
          /\ DOMAIN dictionary = tokens
          /\ \A t \in tokens : dictionary[t] \in 0..(N - 1)
          /\ \A s, t \in tokens : dictionary[s] = dictionary[t] => s = t
          /\ \A n \in 0..(N - 1) : \E t \in tokens : dictionary[t] = n

C5_Witness ==
  /\ AfterBuild
  /\ Cardinality(DOMAIN dictionary) >= 2
  /\ Len(data) > Cardinality(DOMAIN dictionary)

\* C6: ids follow descending frequency with lexicographic tie-break: for distinct
\* tokens s, t: id(s) < id(t) exactly when count(s) > count(t), or the counts
\* are equal and s sorts before t.
C6_FrequencyOrder ==
  AfterBuild =>
    \A s, t \in DOMAIN dictionary :
      s # t =>
        ((dictionary[s] < dictionary[t]) <=>
           \/ Occurrences(s, data) > Occurrences(t, data)
           \/ /\ Occurrences(s, data) = Occurrences(t, data)
              /\ LexBefore(s, t))

\* a more frequent token gets the smaller id although it sorts later
C6_Witness ==
  /\ AfterBuild
  /\ \E s, t \in DOMAIN dictionary :
       /\ Occurrences(s, data) > Occurrences(t, data)
       /\ LexBefore(t, s)
       /\ dictionary[s] < dictionary[t]

\* the split encoded last, once it has been encoded
Encoded ==
  CASE pc = "encode_valid" -> train_data
    [] pc = "encode_test" -> valid_data
    [] pc = "return" -> test_data
    [] OTHER -> <<>>

AfterEncode == pc \in {"encode_valid", "encode_test", "return"}

InVocabulary == {k \in DOMAIN data : data[k] \in DOMAIN dictionary}

\* C7: encoding returns exactly the ids of the in-vocabulary tokens in their
\* original order: absent tokens are dropped without error or placeholder, each
\* present token contributes its own id, and the output is as long as the
\* number of in-vocabulary tokens.
C7_EncodeFilters ==
  AfterEncode =>
    /\ err = "none"
    /\ Len(Encoded) = Cardinality(InVocabulary)
    /\ \A k \in InVocabulary :
         Encoded[Cardinality({m \in InVocabulary : m <= k})] = dictionary[data[k]]

\* a token absent from the vocabulary stands before one that is present
C7_Witness ==
  /\ AfterEncode
  /\ \E k, m \in DOMAIN data :
       /\ k < m
       /\ data[k] \notin DOMAIN dictionary
       /\ data[m] \in DOMAIN dictionary
  /\ Len(Encoded) < Len(data)

\* C8: for each split the encoded dataset holds one id per corpus token of the
\* split: its length is the number of tokens of the split's corpus.
C8_OneIdPerToken == AfterEncode => Len(Encoded) = Len(data)

\* C9: a level other than "word" or "char" fails the call with the
\* invalid-argument failure before a vocabulary is built or a split encoded and
\* without data returned; with "word" or "char" that failure never occurs.
C9_UnknownLevel ==
  /\ level \notin {"word", "char"} =>
       /\ pc \in {"start", "failed"}
       /\ pc = "failed" => err = "Unknown level"
       /\ build = "none" /\ encode = "none"
       /\ data = <<>> /\ dictionary = <<>>
       /\ train_data = <<>> /\ valid_data = <<>> /\ test_data = <<>>
       /\ vocabulary = -1
  /\ level \in {"word", "char"} =>
       /\ err # "Unknown level"
       /\ pc # "start" => build # "none"

C9_Witness ==
  /\ level = "sentence"
  /\ pc = "failed"
  /\ err = "Unknown level"

====
